---- MODULE Spec2Model ----
(***************************************************************************)
(* Surface profile synthesis of tribology.py: profball (2D ball profile)   *)
(* and profrevolve (3D profile obtained by revolving a 2D profile).        *)
(*                                                                         *)
(* Numbers are float64 values on a coarse grid: the representable finite   *)
(* values are the integers of magnitude <= FloatMax, a result beyond that  *)
(* range overflows to an infinity, and inf - inf or 0 * inf is NaN.        *)
(* Diameters are drawn from the even integers so that x / 2 is exact.      *)
(* Arrays are indexed from 0 as in the source; the input vectors are       *)
(* sequences, element i of the source being element i + 1 here.            *)
(***************************************************************************)
EXTENDS Integers, Sequences, FiniteSets

VARIABLES
    op,          \* the function called: "profball" or "profrevolve"
    pc,          \* position in the called function
    x_axis,      \* profball argument
    r_ball,      \* profball argument
    prof,        \* profball return value
    prof_2d,     \* profrevolve argument
    y_axis,      \* profrevolve argument
    y_diam,      \* profrevolve argument
    len_x,       \* local of profrevolve
    len_y,       \* local of profrevolve
    sign_diam,   \* local of profrevolve
    i_x,         \* loop index of profrevolve
    i_y,         \* loop index of profrevolve
    bracket,     \* value of the local `bracket` at each cell visited
    prof_3d,     \* local of profrevolve (array, rebound on line 62)
    raw_3d,      \* the array prof_3d named before line 62 rebinds the name
    min_prof,    \* local of profrevolve
    y_profile,   \* local of profrevolve, second return value
    ret_3d,      \* first return value of profrevolve
    exc          \* exception that left the function, or "none"

vars == <<op, pc, x_axis, r_ball, prof, prof_2d, y_axis, y_diam, len_x, len_y,
          sign_diam, i_x, i_y, bracket, prof_3d, raw_3d, min_prof, y_profile,
          ret_3d, exc>>

(***************************************************************************)
(* Bounds of the checked input space.                                      *)
(***************************************************************************)
MaxLenX == 3
MaxLenY == 2
MaxProf == 1
MaxY == 1
MaxHalfDiam == 2
MaxX == 2
MaxR == 2
FloatMax == 10000
Big == 1000

(***************************************************************************)
(* float64 arithmetic.                                                     *)
(***************************************************************************)
PInf == FloatMax + 1
NInf == -PInf
NaN == FloatMax + 2

Overflow(n) == IF n > FloatMax THEN PInf ELSE IF n < -FloatMax THEN NInf ELSE n

fneg(a) == IF a = NaN THEN NaN ELSE -a

fabs(a) == IF a = NaN THEN NaN ELSE IF a < 0 THEN -a ELSE a

fadd(a, b) ==
    IF a = NaN \/ b = NaN THEN NaN
    ELSE IF a \in {PInf, NInf} THEN (IF b = -a THEN NaN ELSE a)
    ELSE IF b \in {PInf, NInf} THEN b
    ELSE Overflow(a + b)

fsub(a, b) == fadd(a, fneg(b))

fmul(a, b) ==
    IF a = NaN \/ b = NaN THEN NaN
    ELSE IF a \in {PInf, NInf} \/ b \in {PInf, NInf}
         THEN (IF a = 0 \/ b = 0 THEN NaN
               ELSE IF (a > 0) = (b > 0) THEN PInf ELSE NInf)
    ELSE Overflow(a * b)

fhalf(a) == IF a \in {NaN, PInf, NInf} THEN a ELSE a \div 2

fpow2(a) == fmul(a, a)

fle(a, b) == a # NaN /\ b # NaN /\ a <= b

fgt(a, b) == a # NaN /\ b # NaN /\ a > b

\* the representable value nearest to the square root of n >= 0
NearestRoot(n) == CHOOSE s \in 0..n : (s = 0 \/ s * s - s < n) /\ n <= s * s + s

\* math.sqrt, called on arguments that are not negative
sqrt(a) == IF a \in {NaN, PInf} THEN a ELSE NearestRoot(a)

\* numpy.sqrt: invalid (NaN) on a negative argument
np_sqrt(a) == IF a = NaN \/ a < 0 THEN NaN ELSE sqrt(a)

\* variant: a sign that is never zero
np_sign_nonzero(a) == IF a = NaN THEN NaN ELSE IF a > 0 THEN 1 ELSE -1

np_sign(a) == IF a = NaN THEN NaN ELSE IF a > 0 THEN 1 ELSE IF a < 0 THEN -1 ELSE 0

(***************************************************************************)
(* Python helpers.                                                         *)
(***************************************************************************)
\* round(n / 2) for an integer n >= 0: halves round to the even neighbour
round_half(n) ==
    IF n % 2 = 0 THEN n \div 2
    ELSE IF ((n - 1) \div 2) % 2 = 0 THEN (n - 1) \div 2 ELSE (n + 1) \div 2

\* floor(n / 2)
floor_half(n) == n \div 2

NoIndex == -1

\* position that index i denotes on an axis of size n, NoIndex when i is out
\* of bounds; a negative index counts from the end
PyIndex(i, n) ==
    IF 0 <= i /\ i < n THEN i
    ELSE IF -n <= i /\ i < 0 THEN i + n
    ELSE NoIndex

Rows(n) == 0..(n - 1)

zeros(n, m) == [r \in Rows(n) |-> [c \in Rows(m) |-> 0]]

CellSet(g, n, m) == {g[r][c] : r \in Rows(n), c \in Rows(m)}

\* variant: the maximum instead of the minimum
array_max(g, n, m) ==
    IF NaN \in CellSet(g, n, m) THEN NaN
    ELSE CHOOSE v \in CellSet(g, n, m) : \A w \in CellSet(g, n, m) : v >= w

\* numpy.ndarray.min of a non-empty array: NaN when any element is NaN
array_min(g, n, m) ==
    IF NaN \in CellSet(g, n, m) THEN NaN
    ELSE CHOOSE v \in CellSet(g, n, m) : \A w \in CellSet(g, n, m) : v <= w

\* elementwise -(g - ref)
neg_offset(g, ref, n, m) ==
    [r \in Rows(n) |-> [c \in Rows(m) |-> fneg(fsub(g[r][c], ref))]]

\* elementwise -g
negated(g, n, m) == [r \in Rows(n) |-> [c \in Rows(m) |-> fneg(g[r][c])]]

\* g[:, c]
column(g, c, n) == [r \in Rows(n) |-> g[r][c]]

(***************************************************************************)
(* profball                                                                *)
(***************************************************************************)
\* variant: r_ball without abs()
ball_height_signed(x, r) == fsub(r, np_sqrt(fsub(fpow2(r), fpow2(x))))

\* one element of abs(r_ball) - np.sqrt(r_ball ** 2 - np.power(x_axis, 2))
ball_height(x, r) == fsub(fabs(r), np_sqrt(fsub(fpow2(r), fpow2(x))))

profball(xs, r) == [i \in 1..Len(xs) |-> fmul(ball_height(xs[i], r), np_sign(r))]

(***************************************************************************)
(* profrevolve                                                             *)
(***************************************************************************)
\* variant: abs(y_diam) / 2 inside the square
BracketAbs(d, s, p, y) == fsub(fpow2(fsub(fhalf(fabs(d)), fmul(s, p))), fpow2(y))

\* the local `bracket` of the loop body
Bracket(d, s, p, y) == fsub(fpow2(fsub(fhalf(d), fmul(s, p))), fpow2(y))

\* the value the loop body stores in prof_3d[i_x, i_y]
CellValue(d, s, b) ==
    IF fle(b, 0) THEN fhalf(fabs(d))
    ELSE fsub(fhalf(fabs(d)), fmul(s, sqrt(b)))

\* variant: floor instead of round
RefIndexFloor(n) == floor_half(n) - 1

\* the index used for both axes when y_diam <= 0
RefIndex(n) == round_half(n) - 1

\* the index of the returned column
SliceIndex(m) == floor_half(m)

\* variant: the array returned without negation
PrimarySame(g, n, m) == g

\* variant: the negated array returned transposed
PrimaryTransposed(g, n, m) == [c \in Rows(m) |-> [r \in Rows(n) |-> fneg(g[r][c])]]

\* the first element of the returned pair
Primary(g, n, m) == negated(g, n, m)

Unset == [r \in {} |-> 0]

(***************************************************************************)
(* Inputs                                                                  *)
(***************************************************************************)
SeqsUpTo(S, n) == UNION {[1..k -> S] : k \in 0..n}

ProfVals == (-MaxProf)..MaxProf
YVals == (-MaxY)..MaxY
Diams == {2 * h : h \in (-MaxHalfDiam)..MaxHalfDiam}
XVals == (-MaxX)..MaxX
RVals == (-MaxR)..MaxR

InitLocals ==
    /\ pc = "call"
    /\ prof = <<>>
    /\ len_x = 0
    /\ len_y = 0
    /\ sign_diam = 0
    /\ i_x = 0
    /\ i_y = 0
    /\ bracket = Unset
    /\ prof_3d = Unset
    /\ raw_3d = Unset
    /\ min_prof = 0
    /\ y_profile = Unset
    /\ ret_3d = Unset
    /\ exc = "none"

InitBall ==
    /\ op = "profball"
    /\ x_axis \in SeqsUpTo(XVals, MaxLenX)
    /\ r_ball \in RVals
    /\ prof_2d = <<>>
    /\ y_axis = <<>>
    /\ y_diam = 0

InitRevolve(PV, YV) ==
    /\ op = "profrevolve"
    /\ x_axis = <<>>
    /\ r_ball = 0
    /\ prof_2d \in SeqsUpTo(PV, MaxLenX)
    /\ y_axis \in SeqsUpTo(YV, MaxLenY)
    /\ y_diam \in Diams

\* inputs whose squares are representable
Init == InitLocals /\ (InitBall \/ InitRevolve(ProfVals, YVals))

\* inputs that include a finite value whose square is not representable
InitBig == InitLocals /\ (InitBall \/ InitRevolve(ProfVals \cup {Big}, YVals \cup {Big}))

(***************************************************************************)
(* Actions                                                                 *)
(***************************************************************************)
\* profball, lines 29-30
CallProfball ==
    /\ op = "profball"
    /\ pc = "call"
    /\ prof' = profball(x_axis, r_ball)
    /\ pc' = "done"
    /\ UNCHANGED <<op, x_axis, r_ball, prof_2d, y_axis, y_diam, len_x, len_y,
                   sign_diam, i_x, i_y, bracket, prof_3d, raw_3d, min_prof,
                   y_profile, ret_3d, exc>>

\* profrevolve, lines 46-49
Allocate ==
    /\ op = "profrevolve"
    /\ pc = "call"
    /\ len_x' = Len(prof_2d)
    /\ len_y' = Len(y_axis)
    /\ prof_3d' = zeros(Len(prof_2d), Len(y_axis))
    /\ bracket' = zeros(Len(prof_2d), Len(y_axis))
    /\ sign_diam' = np_sign(y_diam)
    /\ i_x' = 0
    /\ i_y' = 0
    /\ pc' = IF Len(prof_2d) = 0 \/ Len(y_axis) = 0 THEN "norm" ELSE "fill"
    /\ UNCHANGED <<op, x_axis, r_ball, prof, prof_2d, y_axis, y_diam, raw_3d,
                   min_prof, y_profile, ret_3d, exc>>

\* profrevolve, lines 50-57: one pass of the inner loop body
FillCell ==
    /\ pc = "fill"
    /\ LET b == Bracket(y_diam, sign_diam, prof_2d[i_x + 1], y_axis[i_y + 1])
       IN /\ bracket' = [bracket EXCEPT ![i_x][i_y] = b]
          /\ prof_3d' = [prof_3d EXCEPT ![i_x][i_y] = CellValue(y_diam, sign_diam, b)]
    /\ IF i_y + 1 < len_y
       THEN i_x' = i_x /\ i_y' = i_y + 1 /\ pc' = "fill"
       ELSE /\ i_x' = i_x + 1
            /\ i_y' = 0
            /\ pc' = IF i_x + 1 < len_x THEN "fill" ELSE "norm"
    /\ UNCHANGED <<op, x_axis, r_ball, prof, prof_2d, y_axis, y_diam, len_x,
                   len_y, sign_diam, raw_3d, min_prof, y_profile, ret_3d, exc>>

\* the outcome of lines 58-61: the reference value, or the exception raised
Reference ==
    IF fgt(y_diam, 0)
    THEN IF len_x = 0 \/ len_y = 0
         THEN [exc |-> "ValueError", val |-> 0]
         ELSE [exc |-> "none", val |-> array_min(prof_3d, len_x, len_y)]
    ELSE LET r == PyIndex(RefIndex(len_x), len_x)
             c == PyIndex(RefIndex(len_x), len_y)
         IN IF r = NoIndex \/ c = NoIndex
            THEN [exc |-> "IndexError", val |-> 0]
            ELSE [exc |-> "none", val |-> prof_3d[r][c]]

\* profrevolve, lines 58-62
Normalize ==
    /\ pc = "norm"
    /\ raw_3d' = prof_3d
    /\ IF Reference.exc = "none"
       THEN /\ min_prof' = Reference.val
            /\ prof_3d' = neg_offset(prof_3d, Reference.val, len_x, len_y)
            /\ exc' = exc
            /\ pc' = "slice"
       ELSE /\ exc' = Reference.exc
            /\ pc' = "raised"
            /\ UNCHANGED <<min_prof, prof_3d>>
    /\ UNCHANGED <<op, x_axis, r_ball, prof, prof_2d, y_axis, y_diam, len_x,
                   len_y, sign_diam, i_x, i_y, bracket, y_profile, ret_3d>>

\* profrevolve, lines 63-64
Return ==
    /\ pc = "slice"
    /\ y_profile' = column(prof_3d, SliceIndex(len_y), len_x)
    /\ ret_3d' = Primary(prof_3d, len_x, len_y)
    /\ pc' = "done"
    /\ UNCHANGED <<op, x_axis, r_ball, prof, prof_2d, y_axis, y_diam, len_x,
                   len_y, sign_diam, i_x, i_y, bracket, prof_3d, raw_3d,
                   min_prof, exc>>

Next == CallProfball \/ Allocate \/ FillCell \/ Normalize \/ Return

Spec == Init /\ [][Next]_vars

SpecBig == InitBig /\ [][Next]_vars

(***************************************************************************)
(* Properties                                                              *)
(***************************************************************************)
Revolve == op = "profrevolve"

\* the loop of lines 50-57 has run to its end
Filled == Revolve /\ pc \in {"norm", "slice", "done", "raised"}

\* the grid as the loop left it
Raw == IF pc = "norm" THEN prof_3d ELSE raw_3d

Half == fhalf(fabs(y_diam))

P(ix) == prof_2d[ix + 1]

Y(iy) == y_axis[iy + 1]

\* C1 as stated: every raw cell follows from
\* bracket = (|y_diam|/2 - sign(y_diam) * profile_2d[ix])^2 - y_axis[iy]^2:
\* |y_diam|/2 - sign(y_diam) * sqrt(bracket) when bracket > 0, |y_diam|/2 otherwise.
C1_AbsBracket ==
    Filled =>
        \A ix \in Rows(len_x), iy \in Rows(len_y) :
            LET b == fsub(fpow2(fsub(Half, fmul(np_sign(y_diam), P(ix)))), fpow2(Y(iy)))
            IN /\ fgt(b, 0) => Raw[ix][iy] = fsub(Half, fmul(np_sign(y_diam), sqrt(b)))
               /\ fle(b, 0) => Raw[ix][iy] = Half

\* C1 amended: every raw cell follows from
\* bracket = (y_diam/2 - sign(y_diam) * profile_2d[ix])^2 - y_axis[iy]^2 (the signed
\* half diameter inside the square): |y_diam|/2 - sign(y_diam) * sqrt(bracket) when
\* bracket > 0, |y_diam|/2 when bracket <= 0.
C1_SignedBracket ==
    Filled =>
        \A ix \in Rows(len_x), iy \in Rows(len_y) :
            LET b == fsub(fpow2(fsub(fhalf(y_diam), fmul(np_sign(y_diam), P(ix)))),
                          fpow2(Y(iy)))
            IN /\ fgt(b, 0) => Raw[ix][iy] = fsub(Half, fmul(np_sign(y_diam), sqrt(b)))
               /\ fle(b, 0) => Raw[ix][iy] = Half

C1_Witness ==
    /\ Filled
    /\ y_diam < 0
    /\ \E ix \in Rows(len_x), iy \in Rows(len_y) :
          P(ix) # 0 /\ bracket[ix][iy] > 0 /\ Raw[ix][iy] > Half
    /\ \E ix \in Rows(len_x), iy \in Rows(len_y) :
          bracket[ix][iy] <= 0 /\ Raw[ix][iy] = Half

\* C2 as stated: when y_diam <= 0 the reference subtracted is the raw cell at
\* (floor(len_x/2) - 1, floor(len_x/2) - 1), for every len_x.
C2_FloorReference ==
    (Revolve /\ pc \in {"slice", "done"} /\ y_diam <= 0) =>
        min_prof = raw_3d[PyIndex((len_x \div 2) - 1, len_x)]
                         [PyIndex((len_x \div 2) - 1, len_y)]

\* C2 amended: when y_diam <= 0 the reference index is round(len_x/2) - 1 with
\* halves rounded to the even neighbour, that is floor(len_x/2) - 1 except
\* floor(len_x/2) when len_x mod 4 = 3; it is used on both axes, -1 denoting the
\* last position; the reference subtracted is the raw cell there, and the call
\* raises exactly when the grid has no such cell.
C2_RoundReference ==
    (Revolve /\ pc \in {"slice", "done", "raised"} /\ y_diam <= 0) =>
        LET k == IF len_x % 4 = 3 THEN len_x \div 2 ELSE (len_x \div 2) - 1
            r == IF k = -1 THEN len_x - 1 ELSE k
            c == IF k = -1 THEN len_y - 1 ELSE k
        IN IF r \in Rows(len_x) /\ c \in Rows(len_y)
           THEN pc # "raised" /\ min_prof = raw_3d[r][c]
           ELSE pc = "raised"

C2_Witness ==
    /\ Revolve
    /\ pc = "done"
    /\ y_diam <= 0
    /\ len_x = 3
    /\ min_prof = raw_3d[1][1]
    /\ raw_3d[1][1] # raw_3d[0][0]

\* C3: profrevolve raises no exception when prof_2d and y_axis are not empty.
C3_NoException ==
    (Revolve /\ Len(prof_2d) > 0 /\ Len(y_axis) > 0) => (pc # "raised" /\ exc = "none")

\* C4: with an empty x_axis, prof_2d or y_axis the call raises no error and the
\* result is empty.
C4_EmptyInput ==
    /\ (op = "profball" /\ x_axis = <<>> /\ pc = "done") => prof = <<>>
    /\ (Revolve /\ (Len(prof_2d) = 0 \/ Len(y_axis) = 0)) =>
           /\ pc # "raised"
           /\ pc = "done" => (ret_3d = <<>> \/ \A r \in DOMAIN ret_3d : ret_3d[r] = <<>>)

\* C5: the first returned value is the negation of final = -(raw - reference), the
\* second is column floor(len_y/2) of final, so second[ix] = -first[ix][floor(len_y/2)].
C5_OppositeSigns ==
    (Revolve /\ pc = "done") =>
        \A ix \in Rows(len_x) :
            /\ \A iy \in Rows(len_y) :
                  ret_3d[ix][iy] = fneg(fneg(fsub(raw_3d[ix][iy], min_prof)))
            /\ y_profile[ix] = fneg(fsub(raw_3d[ix][len_y \div 2], min_prof))
            /\ y_profile[ix] = fneg(ret_3d[ix][len_y \div 2])

C5_Witness ==
    /\ Revolve
    /\ pc = "done"
    /\ \E ix \in Rows(len_x) : y_profile[ix] < 0 /\ ret_3d[ix][len_y \div 2] > 0

C7_Dimensions ==
    (Revolve /\ pc = "done") =>
        /\ DOMAIN ret_3d = Rows(Len(prof_2d))
        /\ \A r \in DOMAIN ret_3d : DOMAIN ret_3d[r] = Rows(Len(y_axis))
        /\ DOMAIN y_profile = Rows(Len(prof_2d))

C7_Witness ==
    /\ Revolve
    /\ pc = "done"
    /\ Len(prof_2d) = 3
    /\ Len(y_axis) = 2

\* C8: at every cell the bracket is either <= 0 (clamped) or > 0 (square root of a
\* positive argument), and no cell of the grid is NaN.
C8_NoInvalidValue ==
    Filled =>
        \A ix \in Rows(len_x), iy \in Rows(len_y) :
            /\ fle(bracket[ix][iy], 0) \/ fgt(bracket[ix][iy], 0)
            /\ Raw[ix][iy] # NaN

C10_ZeroDiameter ==
    (Filled /\ y_diam = 0) =>
        /\ sign_diam = 0
        /\ \A ix \in Rows(len_x), iy \in Rows(len_y) :
              /\ bracket[ix][iy] = -(Y(iy) * Y(iy))
              /\ bracket[ix][iy] <= 0
              /\ Raw[ix][iy] = 0

C10_Witness ==
    /\ Filled
    /\ y_diam = 0
    /\ \E ix \in Rows(len_x), iy \in Rows(len_y) :
          P(ix) # 0 /\ Y(iy) = 0 /\ bracket[ix][iy] = 0 /\ Raw[ix][iy] = 0
    /\ \E ix \in Rows(len_x), iy \in Rows(len_y) : P(ix) # 0 /\ bracket[ix][iy] < 0

TypeOK ==
    /\ op \in {"profball", "profrevolve"}
    /\ pc \in {"call", "fill", "norm", "slice", "done", "raised"}
    /\ exc \in {"none", "ValueError", "IndexError"}
    /\ (pc = "raised") = (exc # "none")

====
